---- MODULE Spec2Model ----
(***************************************************************************)
(* licenses/models.py of cc-licenses: LegalCode and License.               *)
(*                                                                         *)
(* A POFile is a sequence of POEntry records [msgid, msgstr].  POFile      *)
(* objects live in a heap and are referred to by their index, so that the  *)
(* difference between a cached singleton and a deep copy of it is part of  *)
(* the state.  Character strings whose contents the code inspects          *)
(* (language codes, license codes, versions, jurisdiction codes) are       *)
(* sequences of one-character strings; msgids and msgstrs are only ever    *)
(* compared and copied and stay atoms.                                     *)
(***************************************************************************)
EXTENDS Integers, Sequences, FiniteSets, TLC

VARIABLES
    legal_codes,      \* License.legal_codes: the language codes of the license's LegalCode rows
    license,          \* the License row: license_code, version, jurisdiction_code
    self_language,    \* language_code of the LegalCode whose branch_name() is taken
    active_language,  \* django.utils.translation.get_language()
    disk,             \* the .po file of each legal code, as polib parses it
    heap,             \* the POFile objects alive in the process
    cache,            \* the translation singletons: language code -> heap reference of .pofile
    uploads,          \* the legal codes handed to TransifexHelper.upload_messages_to_transifex, in order
    mark,             \* Len(uploads) when the last tx_upload_messages call started
    result,           \* what the last call returned or raised
    ncalls            \* number of calls made so far

vars == <<legal_codes, license, self_language, active_language, disk, heap,
          cache, uploads, mark, result, ncalls>>

----------------------------------------------------------------------------
(* Bounds *)

MaxLen == 2      \* longest .po file, in entries
MaxCalls == 2    \* calls made in one behaviour

----------------------------------------------------------------------------
(* Character strings *)

En == <<"e", "n">>
Fr == <<"f", "r">>
De == <<"d", "e">>
EnUs == <<"e", "n", "-", "u", "s">>
FrCa == <<"f", "r", "-", "c", "a">>
FrCaX == <<"f", "r", "-", "c", "a", "-", "x">>
DeAt == <<"d", "e", "-", "a", "t">>
DashX == <<"-", "x">>
Empty == <<>>

DEFAULT_LANGUAGE_CODE == En

\* c in s
Contains(s, c) == \E i \in DOMAIN s : s[i] = c

\* s.split(sep)[0]
RECURSIVE SplitHead(_, _)
SplitHead(s, sep) ==
    IF s = <<>> \/ Head(s) = sep THEN <<>>
    ELSE <<Head(s)>> \o SplitHead(Tail(s), sep)

\* s.startswith(p)
StartsWith(s, p) == Len(s) >= Len(p) /\ SubSeq(s, 1, Len(p)) = p

\* sep.join(parts)
RECURSIVE Join(_, _)
Join(parts, sep) ==
    IF parts = <<>> THEN <<>>
    ELSE IF Len(parts) = 1 THEN parts[1]
    ELSE parts[1] \o sep \o Join(Tail(parts), sep)

\* s.replace(old, new) for a one-character old; new is a string
RECURSIVE Replace(_, _, _)
Replace(s, old, new) ==
    IF s = <<>> THEN <<>>
    ELSE (IF Head(s) = old THEN new ELSE <<Head(s)>>) \o Replace(Tail(s), old, new)

UpperLetters == <<"A", "B", "C", "D", "E", "F", "G", "H", "I", "J", "K", "L", "M",
                  "N", "O", "P", "Q", "R", "S", "T", "U", "V", "W", "X", "Y", "Z">>
LowerLetters == <<"a", "b", "c", "d", "e", "f", "g", "h", "i", "j", "k", "l", "m",
                  "n", "o", "p", "q", "r", "s", "t", "u", "v", "w", "x", "y", "z">>

\* s.lower()
LowerNoop(s) == s
Lower(s) ==
    [i \in DOMAIN s |->
        IF \E j \in DOMAIN UpperLetters : UpperLetters[j] = s[i]
        THEN LowerLetters[CHOOSE j \in DOMAIN UpperLetters : UpperLetters[j] = s[i]]
        ELSE s[i]]

----------------------------------------------------------------------------
(* POFiles *)

MsgKeys == {"s1a", "s1b", "s1c"}
MsgTexts == {"Adapted Material", "Copyright"}
POEntry == [msgid : MsgKeys, msgstr : MsgTexts]

SeqsUpTo(S, n) == UNION {[1..k -> S] : k \in 0..n}
POFiles == SeqsUpTo(POEntry, MaxLen)

\* the orders in which a queryset without a deciding ordering may yield its rows
Perms(S) == {f \in [1..Cardinality(S) -> S] : \A i, j \in DOMAIN f : f[i] = f[j] => i = j}

\* i18n.translation.get_translation_object(filename, language_code).pofile:
\* the singleton of the language is created from its file on first use
get_pofile(h, c, lang) ==
    IF lang \in DOMAIN c THEN [heap |-> h, cache |-> c, ref |-> c[lang]]
    ELSE [heap |-> Append(h, disk[lang]),
          cache |-> [l \in DOMAIN c \cup {lang} |-> IF l = lang THEN Len(h) + 1 ELSE c[l]],
          ref |-> Len(h) + 1]

\* copy.deepcopy(pofile): a new POFile object with new entries
deepcopy_alias(h, ref) == [heap |-> h, ref |-> ref]
deepcopy(h, ref) == [heap |-> Append(h, h[ref]), ref |-> Len(h) + 1]

\* LegalCode.get_english_pofile
get_english_pofile(h, c, lang) ==
    IF lang # DEFAULT_LANGUAGE_CODE
    THEN IF DEFAULT_LANGUAGE_CODE \in legal_codes
         THEN [kind |-> "return"] @@ get_pofile(h, c, DEFAULT_LANGUAGE_CODE)
         ELSE [kind |-> "DoesNotExist", heap |-> h, cache |-> c]
    ELSE [kind |-> "return"] @@ get_pofile(h, c, lang)

\* {entry.msgid: entry.msgstr for entry in english_pofile}
RECURSIVE DictOfFirstWins(_)
DictOfFirstWins(po) ==
    IF po = <<>> THEN [k \in {} |-> ""]
    ELSE LET d == DictOfFirstWins(SubSeq(po, 1, Len(po) - 1))
             last == po[Len(po)]
         IN  [k \in DOMAIN d \cup {last.msgid} |->
                 IF k \in DOMAIN d THEN d[k] ELSE last.msgstr]
RECURSIVE DictOf(_)
DictOf(po) ==
    IF po = <<>> THEN [k \in {} |-> ""]
    ELSE LET d == DictOf(SubSeq(po, 1, Len(po) - 1))
             last == po[Len(po)]
         IN  [k \in DOMAIN d \cup {last.msgid} |->
                 IF k = last.msgid THEN last.msgstr ELSE d[k]]

\* the body of the loop of the default-language branch
DefaultEntryKeepText(entry) == [msgid |-> entry.msgstr, msgstr |-> entry.msgstr]
DefaultEntrySwapped(entry) == [msgid |-> "", msgstr |-> ""]
DefaultEntry(entry) == [msgid |-> entry.msgstr, msgstr |-> ""]

\* for entry in new_pofile: entry.msgid = entry.msgstr; entry.msgstr = ""
RECURSIVE DefaultLoop(_, _, _)
DefaultLoop(h, ref, i) ==
    IF i > Len(h[ref]) THEN h
    ELSE DefaultLoop([h EXCEPT ![ref][i] = DefaultEntry(h[ref][i])], ref, i + 1)

\* the loop of the other branch: raises on the first msgid the English file lacks
RECURSIVE NonDefaultLoopSkip(_, _, _, _)
NonDefaultLoopSkip(h, ref, map, i) ==
    IF i > Len(h[ref]) THEN [kind |-> "return", heap |-> h, ref |-> ref]
    ELSE IF h[ref][i].msgid \notin DOMAIN map
         THEN NonDefaultLoopSkip(h, ref, map, i + 1)
         ELSE NonDefaultLoopSkip([h EXCEPT ![ref][i].msgid = map[h[ref][i].msgid]],
                                 ref, map, i + 1)
RECURSIVE NonDefaultLoopDrop(_, _, _, _)
NonDefaultLoopDrop(h, ref, map, i) ==
    IF i > Len(h[ref]) THEN [kind |-> "return", heap |-> h, ref |-> ref]
    ELSE IF h[ref][i].msgid \notin DOMAIN map
         THEN NonDefaultLoopDrop(
                  [h EXCEPT ![ref] = SubSeq(h[ref], 1, i - 1) \o SubSeq(h[ref], i + 1, Len(h[ref]))],
                  ref, map, i)
         ELSE NonDefaultLoopDrop([h EXCEPT ![ref][i].msgid = map[h[ref][i].msgid]],
                                 ref, map, i + 1)
RECURSIVE NonDefaultLoopMsgstr(_, _, _, _)
NonDefaultLoopMsgstr(h, ref, map, i) ==
    IF i > Len(h[ref]) THEN [kind |-> "return", heap |-> h, ref |-> ref]
    ELSE IF h[ref][i].msgid \notin DOMAIN map
         THEN [kind |-> "ValueError", heap |-> h, key |-> h[ref][i].msgid]
         ELSE NonDefaultLoopMsgstr([h EXCEPT ![ref][i].msgstr = map[h[ref][i].msgid]],
                                   ref, map, i + 1)
RECURSIVE NonDefaultLoop(_, _, _, _)
NonDefaultLoop(h, ref, map, i) ==
    IF i > Len(h[ref]) THEN [kind |-> "return", heap |-> h, ref |-> ref]
    ELSE IF h[ref][i].msgid \notin DOMAIN map
         THEN [kind |-> "ValueError", heap |-> h, key |-> h[ref][i].msgid]
         ELSE NonDefaultLoop([h EXCEPT ![ref][i].msgid = map[h[ref][i].msgid]],
                             ref, map, i + 1)

\* LegalCode.get_pofile_with_english_msgids, self being the legal code of
\* language lang
get_pofile_with_english_msgids(lang) ==
    /\ ncalls < MaxCalls
    /\ lang \in legal_codes
    /\ LET own == get_pofile(heap, cache, lang)
           new == deepcopy(own.heap, own.ref)
       IN  IF lang = DEFAULT_LANGUAGE_CODE
           THEN /\ heap' = DefaultLoop(new.heap, new.ref, 1)
                /\ cache' = own.cache
                /\ result' = [op |-> "get_pofile_with_english_msgids", self |-> lang,
                              kind |-> "return", ref |-> new.ref]
           ELSE LET english == get_english_pofile(new.heap, own.cache, lang)
                IN  IF english.kind = "DoesNotExist"
                    THEN /\ heap' = english.heap
                         /\ cache' = english.cache
                         /\ result' = [op |-> "get_pofile_with_english_msgids",
                                       self |-> lang, kind |-> "DoesNotExist"]
                    ELSE LET map == DictOf(english.heap[english.ref])
                             done == NonDefaultLoop(english.heap, new.ref, map, 1)
                         IN  /\ heap' = done.heap
                             /\ cache' = english.cache
                             /\ result' =
                                  IF done.kind = "return"
                                  THEN [op |-> "get_pofile_with_english_msgids",
                                        self |-> lang, kind |-> "return", ref |-> done.ref]
                                  ELSE [op |-> "get_pofile_with_english_msgids",
                                        self |-> lang, kind |-> "ValueError", key |-> done.key]
    /\ ncalls' = ncalls + 1
    /\ UNCHANGED <<legal_codes, license, self_language, active_language, disk, uploads, mark>>

NoResult == [op |-> "none", kind |-> "none"]
NoLicense == [license_code |-> <<>>, version |-> <<>>, jurisdiction_code |-> <<>>]

InitPofile ==
    /\ legal_codes \in (SUBSET {En, Fr}) \ {{}}
    /\ disk \in [legal_codes -> POFiles]
    /\ license = NoLicense
    /\ self_language = En
    /\ active_language = En
    /\ heap = <<>>
    /\ cache = [l \in {} |-> 0]
    /\ uploads = <<>>
    /\ mark = 0
    /\ result = NoResult
    /\ ncalls = 0

NextPofile == \E lang \in {En, Fr} : get_pofile_with_english_msgids(lang)

SpecPofile == InitPofile /\ [][NextPofile]_vars

----------------------------------------------------------------------------
(* Properties of get_pofile_with_english_msgids *)

IsPofileCall == result.op = "get_pofile_with_english_msgids"
Target == disk[result.self]                 \* the file of the legal code the call was made on
Default == disk[DEFAULT_LANGUAGE_CODE]      \* the English file of the license
Returned == heap[result.ref]                \* the POFile the call returned
Keys(po) == {po[i].msgid : i \in DOMAIN po}
UniqueKeys(po) == \A i, j \in DOMAIN po : po[i].msgid = po[j].msgid => i = j
NonDefaultCall ==
    /\ IsPofileCall
    /\ result.self # DEFAULT_LANGUAGE_CODE
    /\ DEFAULT_LANGUAGE_CODE \in legal_codes

\* C1: when every msgid of a non-English file is a msgid of the English file,
\* the call returns a POFile whose i-th entry keeps the i-th msgstr of the
\* file and has as msgid the msgstr of an English entry with the i-th msgid.
SubstitutionCorrectness ==
    (NonDefaultCall /\ Keys(Target) \subseteq Keys(Default)) =>
        /\ result.kind = "return"
        /\ Len(Returned) = Len(Target)
        /\ \A i \in DOMAIN Target :
              /\ Returned[i].msgstr = Target[i].msgstr
              /\ \E j \in DOMAIN Default :
                    /\ Default[j].msgid = Target[i].msgid
                    /\ Returned[i].msgid = Default[j].msgstr

SubstitutionWitness ==
    /\ NonDefaultCall
    /\ Keys(Target) \subseteq Keys(Default)
    /\ UniqueKeys(Default)
    /\ Len(Target) = 2
    /\ Target[1].msgid # Target[2].msgid
    /\ Target[1].msgstr # Target[2].msgstr
    /\ result.kind = "return"
    /\ Returned[1].msgid # Returned[2].msgid

FirstMissing(po, english) ==
    CHOOSE i \in DOMAIN po :
        /\ po[i].msgid \notin Keys(english)
        /\ \A j \in 1..(i - 1) : po[j].msgid \in Keys(english)

\* C2: when a non-English file has a msgid the English file lacks, the call
\* raises the error naming the first such msgid in file order and returns no
\* POFile.
MissingKeyFailure ==
    (NonDefaultCall /\ ~(Keys(Target) \subseteq Keys(Default))) =>
        /\ result.kind = "ValueError"
        /\ result.key = Target[FirstMissing(Target, Default)].msgid
        /\ "ref" \notin DOMAIN result

MissingKeyWitness ==
    /\ NonDefaultCall
    /\ Len(Target) = 2
    /\ Target[1].msgid \in Keys(Default)
    /\ Target[2].msgid \notin Keys(Default)
    /\ result.kind = "ValueError"
    /\ result.key = Target[2].msgid

MissingKeyFirstOfTwoWitness ==
    /\ NonDefaultCall
    /\ Len(Target) = 2
    /\ Target[1].msgid \notin Keys(Default)
    /\ Target[2].msgid \notin Keys(Default)
    /\ Target[1].msgid # Target[2].msgid
    /\ result.kind = "ValueError"
    /\ result.key = Target[1].msgid

\* C3: on the English legal code the call always returns, and the i-th entry
\* returned has the i-th msgstr of the file as msgid and an empty msgstr.
DefaultLanguageProperty ==
    (IsPofileCall /\ result.self = DEFAULT_LANGUAGE_CODE) =>
        /\ result.kind = "return"
        /\ Len(Returned) = Len(Target)
        /\ \A i \in DOMAIN Target :
              /\ Returned[i].msgid = Target[i].msgstr
              /\ Returned[i].msgstr = ""

DefaultLanguageWitness ==
    /\ IsPofileCall
    /\ result.self = DEFAULT_LANGUAGE_CODE
    /\ result.kind = "return"
    /\ Len(Target) = 2
    /\ Target[1].msgstr # Target[2].msgstr
    /\ Returned[1].msgid = Target[1].msgstr

\* C4: the POFile of every translation singleton equals the file it was
\* loaded from, whatever calls were made.
NonMutation == \A l \in DOMAIN cache : heap[cache[l]] = disk[l]

NonMutationWitness ==
    /\ ncalls = 2
    /\ DOMAIN cache = {En, Fr}
    /\ result.kind = "return"
    /\ Len(Target) = 2
    /\ Returned # Target
    /\ heap[cache[En]] = disk[En]
    /\ heap[cache[Fr]] = disk[Fr]

NonMutationAfterFailureWitness ==
    /\ NonDefaultCall
    /\ result.kind = "ValueError"
    /\ Len(Target) = 2
    /\ Target[1].msgid \in Keys(Default)
    /\ heap[cache[result.self]] = Target

\* C5: a returned POFile has as many entries as the file, and its i-th entry
\* comes from the i-th entry of the file.
OrderPreservation ==
    (IsPofileCall /\ result.kind = "return") =>
        /\ Len(Returned) = Len(Target)
        /\ \A i \in DOMAIN Target :
              IF result.self = DEFAULT_LANGUAGE_CODE
              THEN Returned[i] = [msgid |-> Target[i].msgstr, msgstr |-> ""]
              ELSE /\ Returned[i].msgstr = Target[i].msgstr
                   /\ \E j \in DOMAIN Default :
                         /\ Default[j].msgid = Target[i].msgid
                         /\ Returned[i].msgid = Default[j].msgstr

OrderPreservationWitness ==
    /\ IsPofileCall
    /\ result.kind = "return"
    /\ result.self # DEFAULT_LANGUAGE_CODE
    /\ Len(Returned) = 2
    /\ Returned[1] # Returned[2]
    /\ Returned[1].msgstr = Target[1].msgstr
    /\ Returned[2].msgstr = Target[2].msgstr
    /\ Target[1].msgstr # Target[2].msgstr

\* C6, as stated: a POFile returned for a file with unique msgids has unique
\* msgids.
ReturnedKeysUnique ==
    (IsPofileCall /\ result.kind = "return" /\ UniqueKeys(Target)) => UniqueKeys(Returned)

DistinctSources ==
    IF result.self = DEFAULT_LANGUAGE_CODE
    THEN \A i, j \in DOMAIN Target : Target[i].msgstr = Target[j].msgstr => i = j
    ELSE \A i, j \in DOMAIN Default :
            Default[i].msgid # Default[j].msgid => Default[i].msgstr # Default[j].msgstr

\* C6, amended: a POFile returned for a file with unique msgids has unique
\* msgids provided the strings that become msgids are distinct: the msgstrs
\* of the file on the English legal code, the msgstrs of English entries with
\* different msgids otherwise.
ReturnedKeysUniqueIfSourcesDistinct ==
    (IsPofileCall /\ result.kind = "return" /\ UniqueKeys(Target) /\ DistinctSources)
        => UniqueKeys(Returned)

ReturnedKeysUniqueWitness ==
    /\ IsPofileCall
    /\ result.kind = "return"
    /\ UniqueKeys(Target)
    /\ DistinctSources
    /\ Len(Target) = 2
    /\ Returned[1].msgid # Returned[2].msgid

LastIndex(po, k) ==
    CHOOSE j \in DOMAIN po :
        /\ po[j].msgid = k
        /\ \A m \in DOMAIN po : po[m].msgid = k => m <= j

\* C9: a msgid the English file holds several times is replaced, at every
\* occurrence in the other file, by the msgstr of the last English entry
\* holding it, and the repetition does not make the call fail.
DuplicateDefaultKeysLastWins ==
    (NonDefaultCall /\ Keys(Target) \subseteq Keys(Default)) =>
        /\ result.kind = "return"
        /\ \A i \in DOMAIN Target :
              Returned[i].msgid = Default[LastIndex(Default, Target[i].msgid)].msgstr

DuplicateDefaultKeysWitness ==
    /\ NonDefaultCall
    /\ result.kind = "return"
    /\ Len(Default) = 2
    /\ Default[1].msgid = Default[2].msgid
    /\ Default[1].msgstr # Default[2].msgstr
    /\ Len(Target) = 2
    /\ Target[1].msgid = Default[1].msgid
    /\ Target[2].msgid = Default[1].msgid
    /\ Returned[1].msgid = Default[2].msgstr
    /\ Returned[2].msgid = Default[2].msgstr

----------------------------------------------------------------------------
(* License *)

RowCodes == {En, Fr, EnUs, FrCa}
LookupCodes == {Empty, En, Fr, De, EnUs, FrCa, FrCaX, DeAt, DashX}
ActiveLanguages == {En, FrCa}

\* self.legal_codes.get(language_code=lang)
legal_codes_get(lang) ==
    IF lang \in legal_codes
    THEN [kind |-> "return", legalcode |-> lang]
    ELSE [kind |-> "DoesNotExist"]

\* License.get_legalcode_for_language_code
get_legalcode_prefix_first(language_code) ==
    LET lc == IF language_code = <<>> THEN active_language ELSE language_code
        short == legal_codes_get(SplitHead(lc, "-"))
    IN  IF Contains(lc, "-") /\ short.kind = "return" THEN short
        ELSE legal_codes_get(lc)
get_legalcode_for_language_code(language_code) ==
    LET lc == IF language_code = <<>> THEN active_language ELSE language_code
        exact == legal_codes_get(lc)
    IN  IF exact.kind = "return" THEN exact
        ELSE IF Contains(lc, "-")
             THEN legal_codes_get(SplitHead(lc, "-"))
             ELSE exact

call_get_legalcode_for_language_code(language_code) ==
    /\ ncalls < MaxCalls
    /\ result' = [op |-> "get_legalcode_for_language_code", arg |-> language_code]
                    @@ get_legalcode_for_language_code(language_code)
    /\ ncalls' = ncalls + 1
    /\ UNCHANGED <<legal_codes, license, self_language, active_language, disk, heap,
                   cache, uploads, mark>>

\* self.legal_codes.exclude(language_code=lang)
exclude_nothing(lang) == legal_codes
exclude(lang) == {l \in legal_codes : l # lang}

\* License.tx_upload_messages; the rows of the queryset all belong to one
\* license, so Meta.ordering leaves their order to the database
tx_upload_messages ==
    /\ ncalls < MaxCalls
    /\ LET en_legalcode == get_legalcode_for_language_code(DEFAULT_LANGUAGE_CODE)
       IN  IF en_legalcode.kind # "return"
           THEN /\ uploads' = uploads
                /\ result' = [op |-> "tx_upload_messages", kind |-> en_legalcode.kind]
           ELSE \E order \in Perms(exclude(DEFAULT_LANGUAGE_CODE)) :
                /\ uploads' = uploads \o <<en_legalcode.legalcode>> \o order
                /\ result' = [op |-> "tx_upload_messages", kind |-> "return"]
    /\ mark' = Len(uploads)
    /\ ncalls' = ncalls + 1
    /\ UNCHANGED <<legal_codes, license, self_language, active_language, disk, heap, cache>>

InitLicense ==
    /\ legal_codes \in SUBSET RowCodes
    /\ active_language \in ActiveLanguages
    /\ disk = [l \in legal_codes |-> <<>>]
    /\ license = NoLicense
    /\ self_language = En
    /\ heap = <<>>
    /\ cache = [l \in {} |-> 0]
    /\ uploads = <<>>
    /\ mark = 0
    /\ result = NoResult
    /\ ncalls = 0

NextLicense ==
    \/ \E language_code \in LookupCodes : call_get_legalcode_for_language_code(language_code)
    \/ tx_upload_messages

SpecLicense == InitLicense /\ [][NextLicense]_vars

Uploaded == SubSeq(uploads, mark + 1, Len(uploads))   \* what the last tx_upload_messages uploaded
Times(seq, x) == Cardinality({i \in DOMAIN seq : seq[i] = x})

\* C7: tx_upload_messages uploads the English legal code first and after it
\* every other legal code of the license once, English not again; without an
\* English legal code it raises DoesNotExist and uploads nothing.
UploadOrdering ==
    result.op = "tx_upload_messages" =>
        IF DEFAULT_LANGUAGE_CODE \in legal_codes
        THEN /\ result.kind = "return"
             /\ Len(Uploaded) >= 1
             /\ Uploaded[1] = DEFAULT_LANGUAGE_CODE
             /\ \A i \in DOMAIN Uploaded : Uploaded[i] \in legal_codes
             /\ \A l \in legal_codes : Times(Uploaded, l) = 1
        ELSE /\ result.kind = "DoesNotExist"
             /\ Uploaded = <<>>

UploadOrderingWitness ==
    /\ result.op = "tx_upload_messages"
    /\ legal_codes = RowCodes
    /\ Len(Uploaded) = 4
    /\ Uploaded[1] = En
    /\ Uploaded[4] = EnUs
    /\ mark = 4

UploadNothingWitness ==
    /\ result.op = "tx_upload_messages"
    /\ legal_codes = {Fr, EnUs}
    /\ result.kind = "DoesNotExist"
    /\ uploads = <<>>

BeforeFirstDash(s) ==
    LET first == CHOOSE i \in DOMAIN s : s[i] = "-" /\ \A j \in 1..(i - 1) : s[j] # "-"
    IN  SubSeq(s, 1, first - 1)

\* C8: for a non-empty language code L, get_legalcode_for_language_code
\* returns the legal code of language L when there is one; otherwise, when L
\* has a "-", the legal code of the part of L before its first "-", or
\* DoesNotExist without one; otherwise DoesNotExist.
LegalcodeFallback ==
    (result.op = "get_legalcode_for_language_code" /\ result.arg # <<>>) =>
        IF result.arg \in legal_codes
        THEN result.kind = "return" /\ result.legalcode = result.arg
        ELSE IF \E i \in DOMAIN result.arg : result.arg[i] = "-"
             THEN IF BeforeFirstDash(result.arg) \in legal_codes
                  THEN result.kind = "return" /\ result.legalcode = BeforeFirstDash(result.arg)
                  ELSE result.kind = "DoesNotExist"
             ELSE result.kind = "DoesNotExist"

LegalcodeExactPreferredWitness ==
    /\ result.op = "get_legalcode_for_language_code"
    /\ result.arg = EnUs
    /\ {En, EnUs} \subseteq legal_codes
    /\ result.kind = "return"
    /\ result.legalcode = EnUs

LegalcodePrefixWitness ==
    /\ result.op = "get_legalcode_for_language_code"
    /\ result.arg = FrCaX
    /\ legal_codes = {Fr, EnUs}
    /\ result.kind = "return"
    /\ result.legalcode = Fr

----------------------------------------------------------------------------
(* LegalCode.branch_name *)

Cc4 == <<"c", "c", "4">>
By == <<"b", "y">>
ByNcSa == <<"b", "y", "-", "n", "c", "-", "s", "a">>
Mit == <<"M", "I", "T">>
NcSamplingPlus == <<"n", "c", "-", "s", "a", "m", "p", "l", "i", "n", "g", "+">>
B == <<"b">>
V40 == <<"4", ".", "0">>
V30 == <<"3", ".", "0">>
Br == <<"b", "r">>
EsCt == <<"e", "s", "_", "C", "T">>
SrLatn == <<"s", "r", "-", "L", "a", "t", "n">>
ZhTw == <<"z", "h", "_", "T", "W">>

LicenseCodes == {By, ByNcSa, Mit, NcSamplingPlus, B}
Versions == {V40, V30, Empty}
JurisdictionCodes == {Empty, Br, EsCt}
BranchLanguages == {En, SrLatn, ZhTw}

\* LegalCode.branch_name
branch_name ==
    LET first == IF StartsWith(license.license_code, By) /\ license.version = V40
                 THEN <<Cc4>>
                 ELSE <<license.license_code, license.version>>
        second == Append(first, self_language)
        parts == IF license.jurisdiction_code # <<>>
                 THEN Append(second, license.jurisdiction_code)
                 ELSE second
    IN  Lower(Replace(Replace(Join(parts, <<"-">>), "_", <<"-">>), ".", <<>>))

call_branch_name ==
    /\ ncalls < MaxCalls
    /\ result' = [op |-> "branch_name", kind |-> "return", value |-> branch_name]
    /\ ncalls' = ncalls + 1
    /\ UNCHANGED <<legal_codes, license, self_language, active_language, disk, heap,
                   cache, uploads, mark>>

InitBranch ==
    /\ license \in [license_code : LicenseCodes, version : Versions,
                    jurisdiction_code : JurisdictionCodes]
    /\ self_language \in BranchLanguages
    /\ legal_codes = {self_language}
    /\ active_language = En
    /\ disk = [l \in legal_codes |-> <<>>]
    /\ heap = <<>>
    /\ cache = [l \in {} |-> 0]
    /\ uploads = <<>>
    /\ mark = 0
    /\ result = NoResult
    /\ ncalls = 0

NextBranch == call_branch_name

SpecBranch == InitBranch /\ [][NextBranch]_vars

\* one part of the name: "_" becomes "-", "." goes, letters become lower case
NormalChar(c) ==
    LET pairs == {<<UpperLetters[i], LowerLetters[i]>> : i \in DOMAIN UpperLetters}
    IN  IF c = "_" THEN "-"
        ELSE IF \E p \in pairs : p[1] = c THEN (CHOOSE p \in pairs : p[1] = c)[2]
        ELSE c
NotPeriod(c) == c # "."
NormalPart(s) == LET kept == SelectSeq(s, NotPeriod) IN [i \in DOMAIN kept |-> NormalChar(kept[i])]

BranchNameCc4Witness ==
    /\ result.op = "branch_name"
    /\ license = [license_code |-> ByNcSa, version |-> V40, jurisdiction_code |-> Empty]
    /\ self_language = SrLatn
    /\ result.value = <<"c", "c", "4", "-", "s", "r", "-", "l", "a", "t", "n">>

====
